---- MODULE Spec2Model ----
(***************************************************************************)
(* WordListGenerator (src/WordListGenerator.py): PatternEnumerator         *)
(* (build_chars, get_values, get_word_from_file) and WordList (run,        *)
(* visit_pattern, launch_pattern_loop).                                    *)
(*                                                                         *)
(* A Python str is a sequence of code points (integers); a character is a  *)
(* code point, so that ord, chr and range(start, end + 1) are exact.       *)
(***************************************************************************)
EXTENDS Integers, Sequences, FiniteSets, TLC

VARIABLES
    \* PatternEnumerator objects under build_chars
    enums,      \* object id -> the dataclass fields name, chars, is_file, filename
    spec0,      \* object id -> the inline specification the object was constructed with
    \* get_values on a file-backed PatternEnumerator
    content,    \* the text of the file `filename`
    calls,      \* the get_values generators created so far, each with its own file position
    \* WordList
    wl,         \* the WordList's fields: counter, max_words, max_time, start_time, delimiter, output
    clock,      \* perf_counter()
    run         \* the run call in progress, or its outcome

vars == <<enums, spec0, content, calls, wl, clock, run>>

------------------------------------------------------------------------------
(* Characters and strings *)

\* ord() on the characters the model writes down
Ord(c) ==
    CASE c = "\n" -> 10
      [] c = "%" -> 37
      [] c = "(" -> 40
      [] c = ")" -> 41
      [] c = "-" -> 45
      [] c = "0" -> 48
      [] c = "1" -> 49
      [] c = "2" -> 50
      [] c = "3" -> 51
      [] c = "A" -> 65
      [] c = "B" -> 66
      [] c = "[" -> 91
      [] c = "]" -> 93
      [] c = "_" -> 95
      [] c = "a" -> 97
      [] c = "b" -> 98
      [] c = "c" -> 99
      [] c = "e" -> 101
      [] c = "f" -> 102
      [] c = "r" -> 114
      [] c = "w" -> 119
      [] c = "x" -> 120
      [] c = "y" -> 121
      [] c = "z" -> 122
      [] c = "{" -> 123
      [] c = "|" -> 124
      [] c = "}" -> 125

\* the str written as a tuple of characters
Str(t) == [i \in 1..Len(t) |-> Ord(t[i])]

\* s[i:].startswith(p), i is 1-based
StartsAt(s, i, p) ==
    /\ i >= 1
    /\ i + Len(p) - 1 <= Len(s)
    /\ SubSeq(s, i, i + Len(p) - 1) = p

\* str.find, 1-based; 0 when p does not occur
Find(s, p) ==
    LET hits == {i \in 1..Len(s) : StartsAt(s, i, p)}
    IN  IF hits = {} THEN 0 ELSE CHOOSE i \in hits : \A j \in hits : i <= j

\* str.replace(p, r, 1)
ReplaceFirst(s, p, r) ==
    LET i == Find(s, p)
    IN  IF i = 0 THEN s
        ELSE SubSeq(s, 1, i - 1) \o r \o SubSeq(s, i + Len(p), Len(s))

\* str.replace(p, r): every non-overlapping occurrence, left to right (p is not empty)
RECURSIVE ReplaceAll(_, _, _)
ReplaceAll(s, p, r) ==
    LET i == Find(s, p)
    IN  IF i = 0 THEN s
        ELSE SubSeq(s, 1, i - 1) \o r
                 \o ReplaceAll(SubSeq(s, i + Len(p), Len(s)), p, r)

\* str * n
RECURSIVE Repeat(_, _)
Repeat(s, n) == IF n <= 0 THEN <<>> ELSE s \o Repeat(s, n - 1)

\* "." of a regular expression: any character but a newline
IsDot(c) == c # Ord("\n")

\* "\d"
IsDigit(c) == c >= 48 /\ c <= 57

\* "\w" on ASCII text
IsWord(c) ==
    \/ IsDigit(c)
    \/ c >= 65 /\ c <= 90
    \/ c >= 97 /\ c <= 122
    \/ c = Ord("_")

\* int() of a run of digits
RECURSIVE ToInt(_)
ToInt(d) ==
    IF d = <<>> THEN 0
    ELSE 10 * ToInt(SubSeq(d, 1, Len(d) - 1)) + (d[Len(d)] - 48)

\* the values of a dataclass field that holds a str, then a set (None for a file)
StrVal(s) == [type |-> "str", str |-> s, set |-> {}]
SetVal(S) == [type |-> "set", str |-> <<>>, set |-> S]
NoneVal == [type |-> "None", str |-> <<>>, set |-> {}]

------------------------------------------------------------------------------
(* PatternEnumerator.build_chars *)

\* re "\[.\-.\]" matched at position i
RangeAt(s, i) ==
    /\ i >= 1
    /\ i + 4 <= Len(s)
    /\ s[i] = Ord("[")
    /\ IsDot(s[i + 1])
    /\ s[i + 2] = Ord("-")
    /\ IsDot(s[i + 3])
    /\ s[i + 4] = Ord("]")

\* regex.finditer(self.chars): the start positions of the non-overlapping
\* matches, left to right, in the string the iterator was created on
RECURSIVE RangeMatches(_, _)
RangeMatches(s, i) ==
    IF i + 4 > Len(s) THEN <<>>
    ELSE IF RangeAt(s, i) THEN <<i>> \o RangeMatches(s, i + 5)
    ELSE RangeMatches(s, i + 1)

\* chr(char) for char in range(start, end + 1), start and end swapped when start > end
RangeChars(pattern) ==
    LET start == pattern[2]
        end == pattern[4]
        lo == IF start > end THEN end ELSE start
        hi == IF start > end THEN start ELSE end
    IN  {<<c>> : c \in lo..hi}

\* the first loop of build_chars: st = [text: self.chars, set: chars]
RECURSIVE RangePass(_, _, _)
RangePass(orig, ms, st) ==
    IF ms = <<>> THEN st
    ELSE LET pattern == SubSeq(orig, Head(ms), Head(ms) + 4)
         IN  RangePass(orig, Tail(ms),
                 [text |-> ReplaceFirst(st.text, pattern, <<>>),
                  set |-> st.set \cup RangeChars(pattern)])

\* the end of the run of "\w" characters that starts at i (i - 1 when there is none)
RECURSIVE WordEnd(_, _)
WordEnd(s, i) ==
    IF i <= Len(s) /\ IsWord(s[i]) THEN WordEnd(s, i + 1) ELSE i - 1

\* re "\((\w+\|)+\w+\)" from a word that starts at i, n words already read:
\* the position of the closing parenthesis, 0 when there is no match
RECURSIVE GroupWords(_, _, _)
GroupWords(s, i, n) ==
    LET e == WordEnd(s, i)
    IN  IF e < i \/ e + 1 > Len(s) THEN 0
        ELSE IF s[e + 1] = Ord("|") THEN GroupWords(s, e + 2, n + 1)
        ELSE IF s[e + 1] = Ord(")") /\ n >= 1 THEN e + 1
        ELSE 0

\* the end of the match of the alternation regex at i, 0 when there is none
GroupEnd(s, i) ==
    IF i >= 1 /\ i <= Len(s) /\ s[i] = Ord("(") THEN GroupWords(s, i + 1, 0) ELSE 0

\* regex.finditer(self.chars) of the second loop: <<start, end>> of each match
RECURSIVE GroupMatches(_, _)
GroupMatches(s, i) ==
    IF i > Len(s) THEN <<>>
    ELSE LET e == GroupEnd(s, i)
         IN  IF e # 0 THEN <<(<<i, e>>)>> \o GroupMatches(s, e + 1)
             ELSE GroupMatches(s, i + 1)

\* str.split("|")
RECURSIVE Split(_, _)
Split(s, sep) ==
    LET hits == {i \in 1..Len(s) : s[i] = sep}
    IN  IF hits = {} THEN <<s>>
        ELSE LET i == CHOOSE k \in hits : \A j \in hits : k <= j
             IN  <<SubSeq(s, 1, i - 1)>> \o Split(SubSeq(s, i + 1, Len(s)), sep)

\* the elements of a sequence
Range(q) == {q[i] : i \in 1..Len(q)}

\* GroupPass without line 197: the matched group stays in the working text
RECURSIVE GroupPassKeepsText(_, _, _)
GroupPassKeepsText(orig, ms, st) ==
    IF ms = <<>> THEN st
    ELSE LET pattern == SubSeq(orig, Head(ms)[1], Head(ms)[2])
             words == Split(SubSeq(pattern, 2, Len(pattern) - 1), Ord("|"))
         IN  GroupPassKeepsText(orig, Tail(ms),
                 [text |-> st.text, set |-> st.set \cup Range(words)])

\* the second loop of build_chars
RECURSIVE GroupPass(_, _, _)
GroupPass(orig, ms, st) ==
    IF ms = <<>> THEN st
    ELSE LET pattern == SubSeq(orig, Head(ms)[1], Head(ms)[2])
             words == Split(SubSeq(pattern, 2, Len(pattern) - 1), Ord("|"))
         IN  GroupPass(orig, Tail(ms),
                 [text |-> ReplaceFirst(st.text, pattern, <<>>),
                  set |-> st.set \cup Range(words)])

\* the set build_chars leaves in self.chars for the inline specification s
BuildSet(s) ==
    LET afterRanges == RangePass(s, RangeMatches(s, 1), [text |-> s, set |-> {}])
        afterGroups == GroupPass(afterRanges.text,
                                 GroupMatches(afterRanges.text, 1), afterRanges)
    IN  afterGroups.set \cup {<<afterGroups.text[i]>> : i \in 1..Len(afterGroups.text)}

\* build_chars on the object with fields e
build_chars(e) ==
    IF ~e.is_file
    THEN [e EXCEPT !.chars = SetVal(BuildSet(e.chars.str))]
    ELSE e

------------------------------------------------------------------------------
(* Inline specifications handed to build_chars *)

MaxParts == 2

Parts ==
    { <<"a">>,
      <<"w">>,
      <<"|">>,
      <<"[", "a", "-">>,
      <<"[", "1", "-", "3", "]">>,
      <<"[", "3", "-", "1", "]">>,
      <<"[", "a", "-", "b", "]">>,
      <<"[", "\n", "-", "a", "]">>,
      <<"(", "w", ")">>,
      <<"(", "a", "|", "b", ")">>,
      <<"(", "w", "1", "|", "w", "2", ")">>,
      <<"(", "x", "[", "[", "a", "-", "b", "]", "a", "-", "b", "]", "|", "y", ")">> }

RECURSIVE PartSeqs(_)
PartSeqs(n) ==
    IF n = 0 THEN {<<>>}
    ELSE LET shorter == PartSeqs(n - 1)
         IN  shorter \cup {Str(p) \o q : p \in Parts, q \in {r \in shorter : TRUE}}

InlineSpecs == PartSeqs(MaxParts) \ {<<>>}

\* s with the two boundary characters of the 5-character span at i exchanged
SwapAt(s, i) == [s EXCEPT ![i + 1] = s[i + 3], ![i + 3] = s[i + 1]]

\* a literal span [X-Y], X and Y any two characters
IsSpan(s, i) ==
    /\ i >= 1
    /\ i + 4 <= Len(s)
    /\ s[i] = Ord("[")
    /\ s[i + 2] = Ord("-")
    /\ s[i + 4] = Ord("]")

Swaps(s) == {SwapAt(s, i) : i \in {k \in 1..Len(s) : IsSpan(s, k)}}

Inline(name, s) == [name |-> name, chars |-> StrVal(s), is_file |-> FALSE, filename |-> <<>>]
FileBacked(name, f) == [name |-> name, chars |-> NoneVal, is_file |-> TRUE, filename |-> f]

\* the WordList and run variables of a specification that has no WordList
IdleWordList ==
    [counter |-> 0, max_words |-> <<>>, max_time |-> <<>>, start_time |-> 0,
     delimiter |-> <<Ord("\n")>>,
     output |-> [file |-> FALSE, closed |-> FALSE, text |-> <<>>]]
IdleRun == [pc |-> "idle"]

\* two PatternEnumerator objects: any inline specification, and beside it the
\* same specification, the specification with one span reversed, or a file
InitChars ==
    /\ \E s \in InlineSpecs :
          \E t \in {s} \cup Swaps(s), f \in BOOLEAN :
             /\ spec0 = [i \in {1, 2} |-> IF i = 1 THEN s ELSE IF f THEN <<>> ELSE t]
             /\ enums = [i \in {1, 2} |->
                            IF i = 1 THEN Inline(<<Ord("1")>>, s)
                            ELSE IF f THEN FileBacked(<<Ord("1")>>, Str(<<"f">>))
                            ELSE Inline(<<Ord("1")>>, t)]
    /\ content = <<>>
    /\ calls = <<>>
    /\ wl = IdleWordList
    /\ clock = 0
    /\ run = IdleRun

BuildChars(i) ==
    /\ enums[i].chars.type # "set"
    /\ enums' = [enums EXCEPT ![i] = build_chars(enums[i])]
    /\ UNCHANGED <<spec0, content, calls, wl, clock, run>>

NextChars == \E i \in {1, 2} : BuildChars(i)

SpecChars == InitChars /\ [][NextChars]_vars

------------------------------------------------------------------------------
(* Claims about build_chars *)

Built(i) == enums[i].chars.type = "set"

\* the number of positions of s outside i..j that hold c
Elsewhere(s, i, j, c) == {k \in 1..Len(s) : (k < i \/ k > j) /\ s[k] = c}

\* c lies in the code-point range of a literal span [X-Y] of s
InSomeSpan(s, c) ==
    \E k \in 1..Len(s) :
        /\ IsSpan(s, k)
        /\ \/ s[k + 1] <= c /\ c <= s[k + 3]
           \/ s[k + 3] <= c /\ c <= s[k + 1]

IsAlnum(c) == IsDigit(c) \/ (c >= 65 /\ c <= 90) \/ (c >= 97 /\ c <= 122)

\* s[i..j] is a parenthesized group of at least n alphanumeric words joined by "|"
IsWordGroup(s, i, j, n) ==
    /\ 1 <= i /\ i + 2 <= j /\ j <= Len(s)
    /\ s[i] = Ord("(")
    /\ s[j] = Ord(")")
    /\ LET words == Split(SubSeq(s, i + 1, j - 1), Ord("|"))
       IN  /\ Len(words) >= n
           /\ \A w \in Range(words) : w # <<>> /\ \A c \in Range(w) : IsAlnum(c)

GroupWordsOf(s, i, j) == Range(Split(SubSeq(s, i + 1, j - 1), Ord("|")))

\* C7 (as claimed): for a specification with a span [X-Y] and the same
\* specification with [Y-X] instead, build_chars gives the same value set; the
\* set holds every character from the smaller to the larger of X and Y, and the
\* span's brackets and dash are no values unless they come from elsewhere.
C7_RangeDirection ==
    (Built(1) /\ Built(2)) =>
        \A i \in 1..Len(spec0[1]) :
            (IsSpan(spec0[1], i) /\ spec0[2] = SwapAt(spec0[1], i)) =>
                LET s == spec0[1]
                    X == s[i + 1]
                    Y == s[i + 3]
                    lo == IF X <= Y THEN X ELSE Y
                    hi == IF X <= Y THEN Y ELSE X
                    others == [k \in 1..(Len(s) - 5) |->
                                  IF k < i THEN s[k] ELSE s[k + 5]]
                IN  /\ enums[1].chars.set = enums[2].chars.set
                    /\ \A c \in lo..hi : <<c>> \in enums[1].chars.set
                    /\ \A c \in {Ord("["), Ord("-"), Ord("]")} :
                          <<c>> \in enums[1].chars.set =>
                              \/ c \in lo..hi
                              \/ Elsewhere(s, i, i + 4, c) # {}
                              \/ InSomeSpan(others, c)

\* the group claim for groups of at least n words
GroupClaim(n) ==
    Built(1) =>
        \A i \in 1..Len(spec0[1]), j \in 1..Len(spec0[1]) :
            IsWordGroup(spec0[1], i, j, n) =>
                LET s == spec0[1]
                    words == GroupWordsOf(s, i, j)
                IN  /\ words \subseteq enums[1].chars.set
                    /\ \A c \in Range(SubSeq(s, i, j)) :
                          <<c>> \in enums[1].chars.set =>
                              \/ Elsewhere(s, i, j, c) # {}
                              \/ InSomeSpan(s, c)
                              \/ <<c>> \in words

\* C8 (as claimed): a parenthesized group of ONE or more alphanumeric words
\* joined by "|" gives each word as one value and none of its parentheses, bars
\* or letters as single-character values.
C8_Original == GroupClaim(1)

\* C8 (amended): a parenthesized group of TWO or more alphanumeric words joined
\* by "|" gives each whole word as one value; its parentheses, its bars and the
\* characters of its words are single-character values only when they occur
\* elsewhere in the specification, lie in a bracket range of it, or are
\* themselves a one-character word of the group.
C8_Alternation == GroupClaim(2)

\* a built specification with a group of two multi-character words, both
\* values, and no parenthesis among the values
C8_Witness ==
    /\ Built(1)
    /\ \E i \in 1..Len(spec0[1]), j \in 1..Len(spec0[1]) :
          /\ IsWordGroup(spec0[1], i, j, 2)
          /\ \E w \in GroupWordsOf(spec0[1], i, j) :
                Len(w) >= 2 /\ w \in enums[1].chars.set
          /\ <<Ord("(")>> \notin enums[1].chars.set
          /\ <<Ord("|")>> \notin enums[1].chars.set

------------------------------------------------------------------------------
(* PatternEnumerator.get_word_from_file and get_values on a file *)

\* file.read(1) at offset pos: one character, or the empty str at end of input
Read1(text, pos) ==
    IF pos < Len(text) THEN [ch |-> <<text[pos + 1]>>, pos |-> pos + 1]
    ELSE [ch |-> <<>>, pos |-> pos]

\* the while loop of get_word_from_file
RECURSIVE WordLoop(_, _, _, _, _)
WordLoop(text, pos, word, last, delimiter) ==
    IF last # delimiter /\ last # <<>>
    THEN LET r == Read1(text, pos)
         IN  WordLoop(text, r.pos,
                      IF r.ch # delimiter THEN word \o r.ch ELSE word,
                      r.ch, delimiter)
    ELSE [word |-> word, pos |-> pos]

\* the while loop of get_word_from_file without the test of line 249
RECURSIVE WordLoopKeepsDelimiter(_, _, _, _, _)
WordLoopKeepsDelimiter(text, pos, word, last, delimiter) ==
    IF last # delimiter /\ last # <<>>
    THEN LET r == Read1(text, pos)
         IN  WordLoopKeepsDelimiter(text, r.pos, word \o r.ch, r.ch, delimiter)
    ELSE [word |-> word, pos |-> pos]

get_word_keeps_delimiter(text, pos, delimiter) ==
    LET r == Read1(text, pos)
    IN  WordLoopKeepsDelimiter(text, r.pos, r.ch, r.ch, delimiter)

\* get_word_from_file on a file with the given text, read from offset pos:
\* the word returned and the offset the file is left at
get_word_from_file(text, pos, delimiter) ==
    LET r == Read1(text, pos)
    IN  WordLoop(text, r.pos, r.ch, r.ch, delimiter)

\* a get_values generator on a file, not yet started: the file is opened, at
\* offset 0, when the generator is first resumed
NewFileGen(delimiter) ==
    [state |-> "created", pos |-> 0, delimiter |-> delimiter, yielded |-> <<>>]

\* next() on a get_values generator g of a file with the given text: the
\* generator afterwards, with the word it yields appended to g.yielded, or
\* finished when get_word_from_file returned the empty str
ResumeFileGen(g, text) ==
    LET r == get_word_from_file(text, g.pos, g.delimiter)
    IN  IF r.word # <<>>
        THEN [g EXCEPT !.state = "suspended", !.pos = r.pos,
                       !.yielded = g.yielded \o <<r.word>>]
        ELSE [g EXCEPT !.state = "done", !.pos = r.pos]

MaxFileLen == 4
MaxCalls == 2

FileAlphabet == {Ord("a"), Ord("b"), Ord("\n")}
Delimiters == {<<Ord("\n")>>, <<Ord("b")>>}

RECURSIVE FileTexts(_)
FileTexts(n) ==
    IF n = 0 THEN {<<>>}
    ELSE LET shorter == FileTexts(n - 1)
         IN  shorter \cup {<<c>> \o t : c \in FileAlphabet, t \in shorter}

InitFile ==
    /\ content \in FileTexts(MaxFileLen)
    /\ calls = <<>>
    /\ enums = [i \in {1, 2} |-> FileBacked(<<Ord("1")>>, Str(<<"f">>))]
    /\ spec0 = [i \in {1, 2} |-> <<>>]
    /\ wl = IdleWordList
    /\ clock = 0
    /\ run = IdleRun

\* p.get_values(encoding, delimiter) is called: a new generator
GetValues(d) ==
    /\ Len(calls) < MaxCalls
    /\ calls' = Append(calls, NewFileGen(d))
    /\ UNCHANGED <<enums, spec0, content, wl, clock, run>>

\* next() on the i-th generator
NextValue(i) ==
    /\ calls[i].state # "done"
    /\ calls' = [calls EXCEPT ![i] = ResumeFileGen(calls[i], content)]
    /\ UNCHANGED <<enums, spec0, content, wl, clock, run>>

NextFile ==
    \/ \E d \in Delimiters : GetValues(d)
    \/ \E i \in 1..Len(calls) : NextValue(i)

SpecFile == InitFile /\ [][NextFile]_vars

------------------------------------------------------------------------------
(* Claims about get_values on a file *)

\* the delimiter-separated fields of a text, without the empty field that
\* follows a final delimiter (or is all of an empty text)
Fields(text, delimiter) ==
    LET all == Split(text, delimiter[1])
    IN  IF all[Len(all)] = <<>> THEN SubSeq(all, 1, Len(all) - 1) ELSE all

\* non-empty words separated by single delimiters, with or without a final one
WellFormed(text, delimiter) ==
    /\ text # <<>>
    /\ \A w \in Range(Fields(text, delimiter)) : w # <<>>

IsPrefix(p, q) == Len(p) <= Len(q) /\ SubSeq(q, 1, Len(p)) = p

\* C5 (as claimed): a finished call of get_values has yielded one word per
\* delimiter-separated field of the file, an EMPTY word for every pair of
\* adjacent delimiters, and nothing for the end of input after the final
\* delimiter.
C5_EmptyWords ==
    \A i \in 1..Len(calls) :
        calls[i].state = "done" =>
            calls[i].yielded = Fields(content, calls[i].delimiter)

\* C6: on a file of non-empty words separated by single delimiters, with or
\* without a final delimiter, every call of get_values yields exactly those
\* words in file order, without the delimiter and with no extra word at the
\* end, whatever other calls are active or finished.
C6_FileWords ==
    \A i \in 1..Len(calls) :
        WellFormed(content, calls[i].delimiter) =>
            /\ IsPrefix(calls[i].yielded, Fields(content, calls[i].delimiter))
            /\ calls[i].state = "done" =>
                  calls[i].yielded = Fields(content, calls[i].delimiter)

\* two calls with the same delimiter on a file of at least two words: one has
\* finished with all of them while the other is suspended after its first word
C6_Witness ==
    /\ Len(calls) = 2
    /\ calls[1].delimiter = calls[2].delimiter
    /\ WellFormed(content, calls[1].delimiter)
    /\ calls[1].state = "done"
    /\ Len(calls[1].yielded) >= 2
    /\ calls[2].state = "suspended"
    /\ Len(calls[2].yielded) = 1

------------------------------------------------------------------------------
(* WordList *)

\* an optional argument: None is <<>>, the value v is <<v>>
None == <<>>
Some(v) == <<v>>

\* the key of self.patterns for a name, as main builds it
Token(name) == Str(<<"%", "(">>) \o name \o Str(<<")">>)

\* an inline PatternEnumerator after build_chars; iter is the order in which
\* iterating the set self.chars yields its elements
BuiltInline(name, s, iter) ==
    [name |-> name, chars |-> SetVal(BuildSet(s)), is_file |-> FALSE,
     filename |-> <<>>, iter |-> iter]

\* the sequences that hold each element of S once
RECURSIVE Orders(_)
Orders(S) ==
    IF S = {} THEN {<<>>}
    ELSE UNION {{<<x>> \o q : q \in Orders(S \ {x})} : x \in S}

\* search that returns the rightmost match instead of the leftmost
SearchRightmost(string) ==
    LET found == {t \in DOMAIN enums : Find(string, t) # 0}
        last(t) == CHOOSE i \in {k \in 1..Len(string) : StartsAt(string, k, t)} :
                       \A j \in {k \in 1..Len(string) : StartsAt(string, k, t)} : j <= i
    IN  IF found = {} THEN <<>>
        ELSE CHOOSE t \in found : \A u \in found : last(u) <= last(t)

\* self.regex.search(string): the text of the leftmost match of any key of
\* self.patterns, <<>> when there is none
Search(string) ==
    LET found == {t \in DOMAIN enums : Find(string, t) # 0}
    IN  IF found = {} THEN <<>>
        ELSE CHOOSE t \in found : \A u \in found : Find(string, t) <= Find(string, u)

\* the length of the run of digits that starts at i
RECURSIVE DigitsLen(_, _)
DigitsLen(s, i) ==
    IF i <= Len(s) /\ IsDigit(s[i]) THEN 1 + DigitsLen(s, i + 1) ELSE 0

\* re "(%\(.*?\))\{(\d+)\}" at position i: the match with the shortest group 1,
\* as [start, close (the end of group 1), end]; end = 0 when there is no match
MultiAt(s, i) ==
    LET closes ==
            {e \in (i + 2)..Len(s) :
                /\ s[e] = Ord(")")
                /\ \A k \in (i + 2)..(e - 1) : IsDot(s[k])
                /\ e + 1 <= Len(s) /\ s[e + 1] = Ord("{")
                /\ DigitsLen(s, e + 2) >= 1
                /\ e + 2 + DigitsLen(s, e + 2) <= Len(s)
                /\ s[e + 2 + DigitsLen(s, e + 2)] = Ord("}")}
    IN  IF StartsAt(s, i, Str(<<"%", "(">>)) /\ closes # {}
        THEN LET e == CHOOSE c \in closes : \A d \in closes : c <= d
             IN  [start |-> i, close |-> e, end |-> e + 2 + DigitsLen(s, e + 2)]
        ELSE [start |-> i, close |-> 0, end |-> 0]

\* finditer(r"(%\(.*?\))\{(\d+)\}", string): the non-overlapping matches, left to right
RECURSIVE MultiMatches(_, _)
MultiMatches(s, i) ==
    IF i > Len(s) THEN <<>>
    ELSE LET m == MultiAt(s, i)
         IN  IF m.end # 0 THEN <<m>> \o MultiMatches(s, m.end + 1)
             ELSE MultiMatches(s, i + 1)

\* the loop of lines 310-314 over the matches ms found in orig
RECURSIVE ExpandLoop(_, _, _)
ExpandLoop(orig, ms, string) ==
    IF ms = <<>> THEN string
    ELSE LET m == Head(ms)
             data == SubSeq(orig, m.start, m.end)
             group1 == SubSeq(orig, m.start, m.close)
             group2 == SubSeq(orig, m.close + 2, m.end - 1)
         IN  ExpandLoop(orig, Tail(ms),
                        ReplaceAll(string, data, Repeat(group1, ToInt(group2))))

\* the template after lines 310-314
Preprocess(string) == ExpandLoop(string, MultiMatches(string, 1), string)

\* next() on the iterator of enumerator.get_values(...) that has consumed pos
\* (values of the set, or characters of the file)
NextOf(e, pos, delimiter) ==
    IF e.is_file
    THEN LET r == get_word_from_file(content, pos, delimiter)
         IN  [has |-> r.word # <<>>, value |-> r.word, pos |-> r.pos]
    ELSE IF pos < Len(e.iter)
         THEN [has |-> TRUE, value |-> e.iter[pos + 1], pos |-> pos + 1]
         ELSE [has |-> FALSE, value |-> <<>>, pos |-> pos]

\* string.replace(pattern, value, 1) of line 366
Substitute(string, pattern, value) == ReplaceFirst(string, pattern, value)

\* line 320
Counted(w) == [w EXCEPT !.counter = w.counter + 1]

\* the condition with the comparison of the elapsed time turned round
LimitReachedTimeBelow(w, now) ==
    \/ w.max_words # None /\ w.counter >= w.max_words[1]
    \/ w.max_time # None /\ now - w.start_time < w.max_time[1]

\* the condition of lines 323-325, now being perf_counter() when it is read
LimitReached(w, now) ==
    \/ w.max_words # None /\ w.counter >= w.max_words[1]
    \/ w.max_time # None /\ now - w.start_time > w.max_time[1]

\* whether lines 323-325 read perf_counter(): "or" and "and" short-circuit
ReadsClock(w) ==
    /\ ~(w.max_words # None /\ w.counter >= w.max_words[1])
    /\ w.max_time # None

\* list(enumerator.get_values(encoding, delimiter)) on a file read from offset pos
RECURSIVE FileWordsFrom(_, _, _)
FileWordsFrom(text, pos, delimiter) ==
    LET r == get_word_from_file(text, pos, delimiter)
    IN  IF r.word = <<>> THEN <<>>
        ELSE <<r.word>> \o FileWordsFrom(text, r.pos, delimiter)

\* list(e.get_values(encoding, delimiter))
ValuesOf(e, delimiter) ==
    IF e.is_file THEN FileWordsFrom(content, 0, delimiter) ELSE e.iter

MaxWordsArg == 2
MaxTimeArg == 0
MaxClock == 1
MaxRuns == 2
RecursionLimit == 5

\* the texts of the file of the file-backed placeholder r: two plain words, or
\* a plain word and a word that is the placeholder's own token
FileTextsOfR ==
    { Str(<<"z", "\n", "y", "\n">>),
      Str(<<"z", "\n", "%", "(", "r", ")">>) }

Templates ==
    { Str(<<"B">>),
      Str(<<"A", "B", "%", "(", "a", ")">>),
      Str(<<"%", "(", "a", ")", "-", "%", "(", "b", ")">>),
      Str(<<"%", "(", "a", ")", "%", "(", "a", ")">>),
      Str(<<"%", "(", "a", ")", "{", "2", "}">>),
      Str(<<"%", "(", "c", ")", "{", "0", "}", "B">>),
      Str(<<"%", "(", "a", ")", "%", "(", "c", ")", "{", "2", "}">>),
      Str(<<"A", "%", "(", "e", ")">>),
      Str(<<"%", "(", "r", ")">>) }

\* the templates of a later run on the same object
LaterTemplates ==
    { Str(<<"A", "B", "%", "(", "a", ")">>),
      Str(<<"%", "(", "a", ")", "{", "2", "}">>) }

\* WordList(patterns, filename, "\n", max_words, max_time): the object after
\* __init__, patterns built as main builds them
Init ==
    /\ \E ia \in Orders(BuildSet(Str(<<"[", "1", "-", "2", "]">>))),
          ib \in Orders(BuildSet(Str(<<"(", "x", "|", "y", "z", ")">>))) :
          enums = (Token(Str(<<"a">>)) :> BuiltInline(Str(<<"a">>), Str(<<"[", "1", "-", "2", "]">>), ia))
               @@ (Token(Str(<<"b">>)) :> BuiltInline(Str(<<"b">>), Str(<<"(", "x", "|", "y", "z", ")">>), ib))
               @@ (Token(Str(<<"c">>)) :> BuiltInline(Str(<<"c">>), Str(<<"c">>), <<Str(<<"c">>)>>))
               @@ (Token(Str(<<"e">>)) :> BuiltInline(Str(<<"e">>), <<>>, <<>>))
               @@ (Token(Str(<<"r">>)) :> FileBacked(Str(<<"r">>), Str(<<"f">>)))
    /\ spec0 = <<>>
    /\ content \in FileTextsOfR
    /\ calls = <<>>
    /\ clock = 0
    /\ \E mw \in {None} \cup {Some(m) : m \in 0..MaxWordsArg},
          mt \in {None} \cup {Some(t) : t \in 0..MaxTimeArg},
          file \in BOOLEAN :
          wl = [counter |-> 0, max_words |-> mw, max_time |-> mt, start_time |-> clock,
                delimiter |-> <<Ord("\n")>>,
                output |-> [file |-> file, closed |-> FALSE, text |-> <<>>]]
    /\ run = [pc |-> "idle", n |-> 0, template |-> <<>>, string |-> <<>>,
              call |-> None, stack |-> <<>>, word |-> <<>>, outcome |-> "none",
              open |-> TRUE, written |-> <<>>, checks |-> <<>>]

\* run(string) is called: lines 310-319, up to the creation of the generator
Run(template) ==
    /\ run.pc = "idle"
    /\ run.n < MaxRuns
    /\ run.n >= 1 => template \in LaterTemplates
    /\ run' = [pc |-> "gen", n |-> run.n + 1, template |-> template,
               string |-> Preprocess(template),
               call |-> Some(Preprocess(template)), stack |-> <<>>, word |-> <<>>,
               outcome |-> "none", open |-> ~wl.output.closed,
               written |-> <<>>, checks |-> <<>>]
    /\ UNCHANGED <<enums, spec0, content, calls, wl, clock>>

\* visit_pattern(string) runs to its yield, or to the call of launch_pattern_loop
VisitPattern ==
    /\ run.pc = "gen"
    /\ run.call # None
    /\ LET string == run.call[1]
           result == Search(string)
       IN  IF result = <<>>
           THEN run' = [run EXCEPT !.pc = "body", !.word = string, !.call = None]
           ELSE IF Len(run.stack) >= RecursionLimit
           THEN run' = [run EXCEPT !.pc = "idle", !.outcome = "RecursionError",
                                   !.call = None, !.stack = <<>>]
           ELSE run' = [run EXCEPT !.call = None,
                           !.stack = Append(run.stack,
                               [string |-> string, pattern |-> result, pos |-> 0])]
    /\ UNCHANGED <<enums, spec0, content, calls, wl, clock>>

\* the for loop of the innermost launch_pattern_loop takes its next value and
\* calls visit_pattern, or ends; with no loop left the generator is exhausted
LaunchPatternLoop ==
    /\ run.pc = "gen"
    /\ run.call = None
    /\ IF run.stack = <<>>
       THEN run' = [run EXCEPT !.pc = "close"]
       ELSE LET top == run.stack[Len(run.stack)]
                nxt == NextOf(enums[top.pattern], top.pos, wl.delimiter)
            IN  IF nxt.has
                THEN run' = [run EXCEPT
                        !.stack[Len(run.stack)].pos = nxt.pos,
                        !.call = Some(Substitute(top.string, top.pattern, nxt.value))]
                ELSE run' = [run EXCEPT
                        !.stack = SubSeq(run.stack, 1, Len(run.stack) - 1)]
    /\ UNCHANGED <<enums, spec0, content, calls, wl, clock>>

\* the body of the loop of run, lines 320-326; write raises ValueError on a
\* closed file
Body ==
    /\ run.pc = "body"
    /\ LET counted == Counted(wl)
       IN  IF wl.output.closed
           THEN /\ wl' = counted
                /\ run' = [run EXCEPT !.pc = "idle", !.outcome = "ValueError",
                                      !.stack = <<>>, !.word = <<>>]
                /\ UNCHANGED clock
           ELSE \E now \in clock..MaxClock :
                /\ IF ReadsClock(counted) THEN clock' = now ELSE now = clock /\ UNCHANGED clock
                /\ wl' = [counted EXCEPT !.output.text =
                              Append(wl.output.text, run.word \o wl.delimiter)]
                /\ run' = [run EXCEPT
                        !.pc = IF LimitReached(counted, now) THEN "close" ELSE "gen",
                        !.word = <<>>,
                        !.stack = IF LimitReached(counted, now) THEN <<>> ELSE run.stack,
                        !.written = Append(run.written, run.word),
                        !.checks = IF ReadsClock(counted)
                                   THEN Append(run.checks, now - wl.start_time)
                                   ELSE run.checks]
    /\ UNCHANGED <<enums, spec0, content, calls>>

\* lines 328-329, and the return of run
Close ==
    /\ run.pc = "close"
    /\ wl' = [wl EXCEPT !.output.closed = wl.output.closed \/ wl.output.file]
    /\ run' = [run EXCEPT !.pc = "idle", !.outcome = "returned", !.stack = <<>>]
    /\ UNCHANGED <<enums, spec0, content, calls, clock>>

Next ==
    \/ \E t \in Templates : Run(t)
    \/ VisitPattern
    \/ LaunchPatternLoop
    \/ Body
    \/ Close

Spec == Init /\ [][Next]_vars

\* list(self.visit_pattern(string)) at nesting depth d: the words yielded before
\* the generator is exhausted or the nesting exceeds the recursion limit
RECURSIVE Words(_, _)
RECURSIVE WordsOfValues(_, _, _, _)
Words(string, d) ==
    LET result == Search(string)
    IN  IF result = <<>> THEN <<string>>
        ELSE IF d >= RecursionLimit THEN <<>>
        ELSE WordsOfValues(string, result, ValuesOf(enums[result], wl.delimiter), d)
WordsOfValues(string, pattern, values, d) ==
    IF values = <<>> THEN <<>>
    ELSE Words(Substitute(string, pattern, Head(values)), d + 1)
             \o WordsOfValues(string, pattern, Tail(values), d)

------------------------------------------------------------------------------
(* Claims about WordList.run *)

NoLimits == wl.max_words = None /\ wl.max_time = None

\* a run call has ended
Finished == run.pc = "idle" /\ run.n >= 1

HasPercent(v) == \E i \in 1..Len(v) : v[i] = Ord("%")

PercentCount(v) == Cardinality({i \in 1..Len(v) : v[i] = Ord("%")})

\* no source of the WordList yields a value that holds the character "%"
PlainSources ==
    \A t \in DOMAIN enums :
        \A v \in Range(ValuesOf(enums[t], wl.delimiter)) : ~HasPercent(v)

\* C1 (as claimed): with max_words = m and no max_time, m any NON-NEGATIVE
\* integer smaller than the number of strings the template gives without
\* limits, the first run of a WordList writes exactly m strings.
C1_Original ==
    ( /\ Finished
      /\ run.n = 1
      /\ wl.max_words # None
      /\ wl.max_time = None
      /\ wl.max_words[1] < Len(Words(run.string, 0)) )
    => Len(run.written) = wl.max_words[1]

\* the first ")" at or after position i, 0 when there is none
FirstClose(s, i) ==
    LET closes == {e \in i..Len(s) : s[e] = Ord(")")}
    IN  IF closes = {} THEN 0 ELSE CHOOSE e \in closes : \A d \in closes : e <= d

\* a single token %(name) at i followed by a suffix {N}: the end of the suffix, else 0
SuffixedTokenEnd(s, i) ==
    LET e == FirstClose(s, i)
        n == DigitsLen(s, e + 2)
    IN  IF /\ StartsAt(s, i, Str(<<"%", "(">>))
           /\ e # 0
           /\ e + 1 <= Len(s) /\ s[e + 1] = Ord("{")
           /\ n >= 1
           /\ e + 2 + n <= Len(s) /\ s[e + 2 + n] = Ord("}")
        THEN e + 2 + n
        ELSE 0

\* the template with every %(name){N} replaced by N copies of that single
\* token %(name), and no other text changed
RECURSIVE IdealExpand(_, _)
IdealExpand(s, i) ==
    IF i > Len(s) THEN <<>>
    ELSE LET end == SuffixedTokenEnd(s, i)
             e == FirstClose(s, i)
         IN  IF end # 0
             THEN Repeat(SubSeq(s, i, e), ToInt(SubSeq(s, e + 2, end - 1)))
                      \o IdealExpand(s, end + 1)
             ELSE <<s[i]>> \o IdealExpand(s, i + 1)

\* C2 (as claimed): before any substitution run replaces every repetition
\* suffix %(name){N} by N copies of that single token %(name) and changes no
\* other text, also when other tokens precede the suffixed one.
C2_Original == run.n >= 1 => run.string = IdealExpand(run.template, 1)

\* the keys of self.patterns matched in s, left to right, as <<position, key>>
RECURSIVE TokensIn(_, _)
TokensIn(s, from) ==
    LET hits == {k \in from..Len(s) : \E t \in DOMAIN enums : StartsAt(s, k, t)}
    IN  IF hits = {} THEN <<>>
        ELSE LET p == CHOOSE k \in hits : \A j \in hits : k <= j
                 t == CHOOSE u \in DOMAIN enums : StartsAt(s, p, u)
             IN  <<(<<p, t>>)>> \o TokensIn(s, p + Len(t))

\* s with the Len(t) characters at position p replaced by v
PutAt(s, p, t, v) == SubSeq(s, 1, p - 1) \o v \o SubSeq(s, p + Len(t), Len(s))

\* C3: with no limits, a template that holds one placeholder token, bound to a
\* source of K values, gives exactly K strings, each the template with the
\* token replaced by one value, in the order the source yields them; a
\* template that holds two distinct tokens, bound to sources of M and N values,
\* gives exactly M x N strings, the N strings of one value of the left token
\* consecutive and before any string of the next value.  The tokens the
\* template holds are all the tokens there are: the values put in make none.
C3_Product ==
    ( /\ Finished
      /\ NoLimits
      /\ run.open
      /\ run.string = run.template )
    => LET s == run.template
           toks == TokensIn(s, 1)
       IN  /\ ( /\ Len(toks) = 1
                /\ \A v \in Range(ValuesOf(enums[toks[1][2]], wl.delimiter)) :
                      TokensIn(PutAt(s, toks[1][1], toks[1][2], v), 1) = <<>> )
               => LET A == toks[1][2]
                      vals == ValuesOf(enums[A], wl.delimiter)
                  IN  /\ run.outcome = "returned"
                      /\ run.written = [k \in 1..Len(vals) |-> PutAt(s, toks[1][1], A, vals[k])]
           /\ ( /\ Len(toks) = 2
                /\ toks[1][2] # toks[2][2]
                /\ \A va \in Range(ValuesOf(enums[toks[1][2]], wl.delimiter)) :
                      LET s1 == PutAt(s, toks[1][1], toks[1][2], va)
                          q == toks[2][1] - Len(toks[1][2]) + Len(va)
                      IN  /\ TokensIn(s1, 1) = <<(<<q, toks[2][2]>>)>>
                          /\ \A vb \in Range(ValuesOf(enums[toks[2][2]], wl.delimiter)) :
                                TokensIn(PutAt(s1, q, toks[2][2], vb), 1) = <<>> )
               => LET A == toks[1][2]
                      B == toks[2][2]
                      va == ValuesOf(enums[A], wl.delimiter)
                      vb == ValuesOf(enums[B], wl.delimiter)
                      M == Len(va)
                      N == Len(vb)
                  IN  /\ run.outcome = "returned"
                      /\ Len(run.written) = M * N
                      /\ \A k \in 1..(M * N) :
                            LET x == va[((k - 1) \div N) + 1]
                                y == vb[((k - 1) % N) + 1]
                                s1 == PutAt(s, toks[1][1], A, x)
                            IN  run.written[k] =
                                    PutAt(s1, toks[2][1] - Len(A) + Len(x), B, y)

\* a run without limits on a template of two distinct tokens has returned
\* after writing the four strings of a 2 x 2 product
C3_Witness ==
    /\ Finished
    /\ NoLimits
    /\ run.outcome = "returned"
    /\ run.string = run.template
    /\ Len(TokensIn(run.template, 1)) = 2
    /\ TokensIn(run.template, 1)[1][2] # TokensIn(run.template, 1)[2][2]
    /\ Len(run.written) = 4

\* C4: with max_time = 0 and no max_words, a run on a template that gives at
\* least one string without limits writes at least one string; every string
\* written is followed by one time check, and a check that has observed an
\* elapsed time above 0 is the last thing the loop did, so nothing is written
\* after it; when the first check observes it, exactly one string is written.
C4_TimeZero ==
    ( /\ run.n >= 1
      /\ run.open
      /\ wl.max_time = Some(0)
      /\ wl.max_words = None )
    => /\ (Finished /\ Len(Words(run.string, 0)) >= 1) => Len(run.written) >= 1
       /\ Len(run.checks) = Len(run.written)
       /\ \A k \in 1..Len(run.checks) :
             run.checks[k] > 0 =>
                 /\ k = Len(run.checks)
                 /\ run.pc \in {"close", "idle"}
       /\ (run.checks # <<>> /\ run.checks[1] > 0) => Len(run.written) = 1

\* a run with max_time = 0 on a template that gives more than one string has
\* returned after one string, its first check having seen the clock advanced
C4_Witness ==
    /\ Finished
    /\ run.outcome = "returned"
    /\ wl.max_time = Some(0)
    /\ wl.max_words = None
    /\ Len(Words(run.string, 0)) >= 2
    /\ Len(run.written) = 1
    /\ run.checks # <<>>
    /\ run.checks[1] > 0

\* C9 (as claimed): with no limits, run ends by exhausting the product, for
\* every template and every mapping to finite sources, ALSO when a value holds
\* the text of a registered placeholder token.
C9_Original ==
    (Finished /\ NoLimits /\ run.open) => run.outcome = "returned"

\* C9 on the inputs where the code does end: with no limits and finite sources
\* none of whose values holds the character "%", every nested
\* visit works on a string with fewer "%" than the one around it, so the
\* nesting is at most the number of "%" in the template, and the run returns
\* having written every string of the product.
C9_Terminates ==
    ( /\ run.n >= 1
      /\ NoLimits
      /\ run.open
      /\ PlainSources )
    => /\ run.outcome # "RecursionError"
       /\ Len(run.stack) <= PercentCount(run.string)
       /\ \A k \in 1..Len(run.stack) :
             /\ PercentCount(run.stack[k].string) <= PercentCount(run.string) - (k - 1)
             /\ PercentCount(run.stack[k].string) >= 1
       /\ Finished =>
             /\ run.outcome = "returned"
             /\ run.written = Words(run.string, 0)

\* a run without limits, on plain sources, has returned after a product of
\* four strings that took two nested loops
C9_Witness ==
    /\ Finished
    /\ NoLimits
    /\ PlainSources
    /\ run.outcome = "returned"
    /\ PercentCount(run.string) = 2
    /\ Len(run.written) = 4

\* C10 (as claimed): after any sequence of run calls on one WordList, counter
\* is the total number of strings written to the sink by all those calls.
C10_Original == wl.counter = Len(wl.output.text)

\* C10 on the runs where the write succeeds: counter and start_time are set
\* at construction and never reset by run.  While the sink is open at the start of the run (a console
\* sink always, a file sink in its first run, which closes it), counter is the
\* total number of strings written by all run calls; the loop goes on only
\* while this cumulative count is below max_words and the time elapsed since
\* construction is at most max_time.
C10_Cumulative ==
    /\ wl.start_time = 0
    /\ run.open => wl.counter = Len(wl.output.text)
    /\ (~wl.output.file \/ run.n <= 1) => run.open
    /\ (run.open /\ run.pc = "gen" /\ run.written # <<>> /\ wl.max_words # None)
          => wl.counter < wl.max_words[1]
    /\ run.checks # <<>> => run.checks[Len(run.checks)] = clock - wl.start_time
    /\ (run.open /\ run.pc = "gen" /\ run.checks # <<>>)
          => run.checks[Len(run.checks)] <= wl.max_time[1]

\* the second run on a console sink has returned; both runs wrote strings and
\* the second stopped at the cumulative count max_words after one string,
\* though its template gives more
C10_Witness ==
    /\ Finished
    /\ run.n = 2
    /\ run.outcome = "returned"
    /\ ~wl.output.file
    /\ wl.max_words # None
    /\ Len(run.written) = 1
    /\ Len(wl.output.text) = 3
    /\ wl.counter = 3
    /\ Len(Words(run.string, 0)) >= 2

====
